---- MODULE Spec2Model ----
(***************************************************************************)
(* The lobby and turn-based game state machine of src/server.js: the lobby *)
(* registry, table seating with its asynchronous ledger debit, the turn    *)
(* engine with its auto-roll and advance timers, winner determination with *)
(* sudden-death ties, and the leave/disconnect reconciliation.             *)
(*                                                                         *)
(* Every socket handler and every timer or database callback is one atomic *)
(* action (node runs each to completion on a single event loop).  A socket *)
(* stands for one authenticated connection of one distinct user, so a      *)
(* socket id also serves as the user's nickname and ledger key.            *)
(***************************************************************************)
EXTENDS Integers, Sequences, FiniteSets, Bags, TLC

\* ---------------------------------------------------------------- bounds
NumSockets == 3      \* connections that ever exist
MaxLobbies == 1      \* lobbies that are ever created
DieMax == 2          \* faces of a die (the program's dice have six)
MaxBet == 1          \* largest integer bet a client sends
StartBalance == 1    \* every user's balance at login (scaled down)
MaxAdvances == 2     \* advance timeouts pending at once, per lobby
MaxPendingDb == 2    \* debits in flight at once
MaxPendingCredits == 1  \* credits in flight at once
MaxJoins == 2        \* join_lobby requests that find their lobby, in all
MaxTables == 1       \* host_set_bet requests that open a table, in all
MaxDisconnects == 2  \* connections that drop, in all
MaxDebits == 3       \* debits requested from the ledger, in all (see Dropped)

\* ------------------------------------------------------ program constants
DieMin == 1
AutoRollDelay == 10000
AdvanceDelay == 3500

None == 0            \* null / undefined
Sockets == 1..NumSockets
LobbyIds == 1..MaxLobbies
BogusId == MaxLobbies + 1     \* a lobby id that is never generated

\* What a client can send as the bet: a number given in halves (3 is 1.5),
\* or something that does not parse as a number at all.
NotANumber == [num |-> FALSE, halves |-> 0]
AmountInputs ==
    {[num |-> TRUE, halves |-> h] : h \in -2 .. (2 * MaxBet + 1)} \cup {NotANumber}

VARIABLES
    connected,     \* connected[s]: socket s is connected
    currentLobby,  \* socket.currentLobby
    balance,       \* socket.userData.balance, the cached balance
    ledger,        \* users.balance in the database
    lobbies,       \* the ids registered in the global `lobbies` table
    nextId,        \* the next fresh lobby id
    heap,          \* the lobby objects, registered or not
    advances,      \* advances[l]: pending 3.5 s advance timeouts of lobby l
    pendingDb,     \* bag of database statements whose callback has not run
    crashed,       \* an uncaught exception has ended the process
    joins,         \* join_lobby requests served so far
    tables,        \* tables opened so far
    debits         \* debits requested so far

vars == <<connected, currentLobby, balance, ledger, lobbies, nextId, heap,
          advances, pendingDb, crashed, joins, tables, debits>>

\* ------------------------------------------------------------ sequences
Range(f) == {f[i] : i \in DOMAIN f}

RECURSIVE FilterSeq(_, _)
\* Array.prototype.filter with the predicate given as the set of kept values
FilterSeq(seq, keep) ==
    IF seq = <<>> THEN <<>>
    ELSE IF Head(seq) \in keep THEN <<Head(seq)>> \o FilterSeq(Tail(seq), keep)
         ELSE FilterSeq(Tail(seq), keep)

Ids(players) == [i \in DOMAIN players |-> players[i].id]
IdSet(players) == {players[i].id : i \in DOMAIN players}
PlayersWithId(players, ids) == {p \in Range(players) : p.id \in ids}

\* players.find(p => p.id === id): index of the first match, 0 if none
FindPlayer(players, id) ==
    IF id \in IdSet(players)
    THEN CHOOSE i \in DOMAIN players :
            /\ players[i].id = id
            /\ \A j \in 1..(i - 1) : players[j].id # id
    ELSE 0

Swap(arr, i, j) == [arr EXCEPT ![i] = arr[j], ![j] = arr[i]]

RECURSIVE ShuffleFrom(_, _)
\* the loop of shuffle from index i down (1-based): every array the random
\* choices of j can produce
ShuffleFrom(arr, i) ==
    IF i <= 1 THEN {arr}
    ELSE UNION {ShuffleFrom(Swap(arr, i, j), i - 1) : j \in 1..i}

shuffle(array) == ShuffleFrom(array, Len(array))

\* getRandomInt(min, max): the values it can return
getRandomInt(min, max) == min..max

\* parseInt(amount): NaN for what is no number, else the integer part of the
\* number (towards zero), as [nan, val]
parseInt(amount) ==
    IF ~amount.num THEN [nan |-> TRUE, val |-> 0]
    ELSE [nan |-> FALSE,
          val |-> IF amount.halves >= 0 THEN amount.halves \div 2
                  ELSE -((-amount.halves) \div 2)]

isNaN(x) == x.nan

\* ---------------------------------------------------------- lobby objects
NoTimer == [armed |-> FALSE, pid |-> None, attached |-> FALSE]

\* the object create_lobby builds
NewLobby(s) ==
    [roomHostId |-> s, tableHostId |-> None, lastWinnerId |-> None,
     state |-> "IDLE", bet |-> 0, pot |-> 0,
     users |-> <<>>, players |-> <<>>, turnOrder |-> <<>>, turnIndex |-> 0,
     timer |-> NoTimer, timeouts |-> 0]

\* lobby.turnOrder[lobby.turnIndex] (0-based index), None when out of range
CurrentTurn(L) ==
    IF L.turnIndex + 1 \in DOMAIN L.turnOrder
    THEN L.turnOrder[L.turnIndex + 1] ELSE None

\* if (lobby.timer) clearTimeout(lobby.timer): lobby.timeouts counts the
\* auto-roll timeouts that were set and have neither fired nor been cancelled
clearTimeout(L) ==
    [L EXCEPT !.timer = NoTimer,
              !.timeouts = IF L.timer.armed THEN @ - 1 ELSE @]

\* The armed timeout holds a reference to a player object.  Dropping every
\* entry of `gone` from lobby.players leaves that object outside the array.
DetachTimer(timer, gone) ==
    IF timer.armed /\ timer.attached /\ timer.pid \in gone
    THEN [timer EXCEPT !.attached = FALSE] ELSE timer


RECURSIVE FilterPlayers(_, _)
\* lobby.players.filter(p => keep has p.id)
FilterPlayers(players, keep) ==
    IF players = <<>> THEN <<>>
    ELSE IF Head(players).id \in keep
         THEN <<Head(players)>> \o FilterPlayers(Tail(players), keep)
         ELSE FilterPlayers(Tail(players), keep)

\* ------------------------------------------------------------ leave logic
\* leaveLobby, the part that repairs a registered lobby object
\* leaveLobby without the hand-over of the room host's role (lines 352-355)
LeaveRepair_no_handover(L, s) ==
    LET users1 == FilterSeq(L.users, Sockets \ {s})
        players1 == FilterPlayers(L.players, Sockets \ {s})
        L1 == [L EXCEPT !.users = users1, !.players = players1,
                        !.timer = DetachTimer(L.timer, {s})]
    IN  IF L.tableHostId = s
        THEN IF Len(players1) > 0
             THEN [L1 EXCEPT !.tableHostId = players1[1].id]
             ELSE IF Len(users1) > 0
                  THEN [L1 EXCEPT !.tableHostId = None, !.state = "IDLE", !.bet = 0]
                  ELSE L1
        ELSE L1

LeaveRepair(L, s) ==
    LET users1 == FilterSeq(L.users, Sockets \ {s})
        players1 == FilterPlayers(L.players, Sockets \ {s})
        roomHost1 == IF L.roomHostId = s /\ Len(users1) > 0
                     THEN users1[1] ELSE L.roomHostId
        L1 == [L EXCEPT !.users = users1, !.players = players1,
                        !.roomHostId = roomHost1,
                        !.timer = DetachTimer(L.timer, {s})]
    IN  IF L.tableHostId = s
        THEN IF Len(players1) > 0
             THEN [L1 EXCEPT !.tableHostId = players1[1].id]
             ELSE IF Len(users1) > 0
                  THEN [L1 EXCEPT !.tableHostId = None, !.state = "IDLE", !.bet = 0]
                  ELSE L1
        ELSE L1

World == [heap |-> heap, lobbies |-> lobbies, currentLobby |-> currentLobby]

\* leaveLobby(socket) on the lobby objects, the registry and socket.currentLobby
leaveLobby(W, s) ==
    LET id == W.currentLobby[s] IN
    IF id = None THEN W
    ELSE LET L1 == IF id \in W.lobbies THEN LeaveRepair(W.heap[id], s) ELSE W.heap[id]
         IN [heap |-> [W.heap EXCEPT ![id] = L1],
             lobbies |-> IF id \in W.lobbies /\ Len(L1.users) = 0
                         THEN W.lobbies \ {id} ELSE W.lobbies,
             currentLobby |-> [W.currentLobby EXCEPT ![s] = None]]

\* joinLobby(socket, id); the lobby object is looked up before the leave
joinLobby(W, s, id) ==
    IF id \notin W.lobbies
    THEN [W |-> W, err |-> "Lobby not found"]
    ELSE LET W1 == IF W.currentLobby[s] # None THEN leaveLobby(W, s) ELSE W
             L == W1.heap[id]
             users1 == Append(L.users, s)
             L1 == [L EXCEPT !.users = users1,
                             !.roomHostId = IF L.roomHostId \in Range(users1)
                                            THEN L.roomHostId ELSE s]
         IN [W |-> [heap |-> [W1.heap EXCEPT ![id] = L1],
                    lobbies |-> W1.lobbies,
                    currentLobby |-> [W1.currentLobby EXCEPT ![s] = id]],
             err |-> ""]

SetWorld(W) ==
    /\ heap' = W.heap
    /\ lobbies' = W.lobbies
    /\ currentLobby' = W.currentLobby

\* s is mentioned by lobby object L
Mentions(L, s) ==
    \/ s \in {L.roomHostId, L.tableHostId, L.lastWinnerId, L.timer.pid}
    \/ s \in Range(L.users) \cup IdSet(L.players) \cup Range(L.turnOrder)

\* A connection that is in the state it was in when it was opened, and that
\* nothing refers to.  Such connections are interchangeable.
Fresh(s) ==
    /\ connected[s] /\ currentLobby[s] = None
    /\ balance[s] = StartBalance /\ ledger[s] = StartBalance
    /\ \A rec \in BagToSet(pendingDb) : rec.sock # s
    /\ \A l \in LobbyIds : ~Mentions(heap[l], s)

\* A client request of s is served: s is connected and the process is alive.
\* Of several interchangeable connections the lowest-numbered acts first.
Up(s) ==
    /\ connected[s] /\ ~crashed
    /\ Fresh(s) => \A r \in 1..(s - 1) : ~Fresh(r)

create_lobby(s) ==
    /\ Up(s)
    /\ nextId <= MaxLobbies
    /\ LET id == nextId
           W0 == [World EXCEPT !.heap[id] = NewLobby(s), !.lobbies = lobbies \cup {id}]
       IN SetWorld(joinLobby(W0, s, id).W)
    /\ nextId' = nextId + 1
    /\ UNCHANGED <<connected, balance, ledger, advances, pendingDb, crashed,
                   joins, tables, debits>>

join_lobby(s, id) ==
    /\ Up(s)
    /\ LET R == joinLobby(World, s, id)
       IN /\ SetWorld(R.W)
          /\ IF R.err = "" THEN joins < MaxJoins /\ joins' = joins + 1
             ELSE UNCHANGED joins
    /\ UNCHANGED <<connected, balance, ledger, nextId, advances, pendingDb,
                   crashed, tables, debits>>

\* what leave_lobby sends back as error_msg ("" when it sends none)
leave_lobby_error(s) ==
    IF /\ currentLobby[s] \in lobbies
       /\ s \in IdSet(heap[currentLobby[s]].players)
    THEN "You cannot leave while seated at the table!" ELSE ""

leave_lobby(s) ==
    /\ Up(s)
    /\ IF leave_lobby_error(s) # ""
       THEN UNCHANGED <<heap, lobbies, currentLobby>>
       ELSE SetWorld(leaveLobby(World, s))
    /\ UNCHANGED <<connected, balance, ledger, nextId, advances, pendingDb,
                   crashed, joins, tables, debits>>

disconnect(s) ==
    /\ Up(s)
    /\ Cardinality({r \in Sockets : ~connected[r]}) < MaxDisconnects
    /\ debits < MaxDebits
    /\ SetWorld(leaveLobby(World, s))
    /\ connected' = [connected EXCEPT ![s] = FALSE]
    /\ UNCHANGED <<balance, ledger, nextId, advances, pendingDb, crashed,
                   joins, tables, debits>>

\* ----------------------------------------------------------------- table
Debit(s, l, amt) == [kind |-> "debit", sock |-> s, lobby |-> l, amt |-> amt]
Credit(s, amt) == [kind |-> "credit", sock |-> s, lobby |-> None, amt |-> amt]

\* sitAtTable up to the db.run call: the statement it issues, if any
sitAtTable(L, s, l) ==
    IF s \in IdSet(L.players) THEN [issue |-> EmptyBag, err |-> ""]
    ELSE IF balance[s] < L.bet THEN [issue |-> EmptyBag, err |-> "Insufficient funds"]
    ELSE [issue |-> SetToBag({Debit(s, l, L.bet)}), err |-> ""]

\* db.run for the statements of bag `issue` (a debit or nothing), within the
\* bounds on statements in flight and on debits
Pending(kind) ==
    BagCardinality([rec \in {r \in BagToSet(pendingDb) : r.kind = kind}
                        |-> pendingDb[rec]])

\* A behaviour in which a connection has dropped has one debit fewer, and a
\* connection drops only while a debit of the budget is left.
Dropped == IF \E r \in Sockets : ~connected[r] THEN 1 ELSE 0

Issue(issue) ==
    /\ Pending("debit") + BagCardinality(issue) <= MaxPendingDb
    /\ debits + BagCardinality(issue) <= MaxDebits - Dropped
    /\ pendingDb' = pendingDb (+) issue
    /\ debits' = debits + BagCardinality(issue)

\* the reset of host_set_bet (lines 171-177)
OpenTable(L, s, amount) ==
    [L EXCEPT !.bet = amount, !.state = "BETTING", !.tableHostId = s,
              !.players = <<>>, !.pot = 0, !.lastWinnerId = None,
              !.timer = DetachTimer(L.timer, Sockets)]

\* the validation of host_set_bet: the error_msg it sends, "" when it opens
\* the table
host_set_bet_error(s, amount) ==
    LET L == heap[currentLobby[s]]
        n == parseInt(amount)
    IN  IF L.state = "PLAYING" THEN "Game in progress"
        ELSE IF /\ L.tableHostId # None /\ L.tableHostId # s
                /\ L.state # "IDLE" /\ L.state # "FINISHED"
             THEN "Table occupied"
        ELSE IF isNaN(n) \/ n.val <= 0 THEN "Invalid bet"
        ELSE ""

host_set_bet(s, amount) ==
    /\ Up(s)
    /\ LET l == currentLobby[s] IN
       IF l \notin lobbies \/ host_set_bet_error(s, amount) # ""
       THEN UNCHANGED <<heap, pendingDb, tables, debits>>
       ELSE LET L1 == OpenTable(heap[l], s, parseInt(amount).val)
                R == sitAtTable(L1, s, l)
            IN /\ Issue(R.issue)
               /\ tables < MaxTables
               /\ tables' = tables + 1
               /\ heap' = [heap EXCEPT ![l] = L1]
    /\ UNCHANGED <<connected, currentLobby, balance, ledger, lobbies, nextId,
                   advances, crashed, joins>>

join_table(s) ==
    /\ Up(s)
    /\ LET l == currentLobby[s] IN
       IF l \notin lobbies \/ heap[l].state # "BETTING"
       THEN UNCHANGED <<pendingDb, debits>>
       ELSE Issue(sitAtTable(heap[l], s, l).issue)
    /\ UNCHANGED <<connected, currentLobby, balance, ledger, lobbies, nextId,
                   heap, advances, crashed, joins, tables>>

\* the callback of the UPDATE in sitAtTable, without error (lines 199-208)
Seat(L, s) ==
    [L EXCEPT !.pot = L.pot + L.bet,
              !.players = Append(L.players, [id |-> s, lastRoll |-> None])]

DebitConfirmed(rec) ==
    /\ ~crashed
    /\ BagIn(rec, pendingDb) /\ rec.kind = "debit"
    /\ pendingDb' = pendingDb (-) SetToBag({rec})
    /\ ledger' = [ledger EXCEPT ![rec.sock] = @ - rec.amt]
    /\ balance' = [balance EXCEPT ![rec.sock] = @ - heap[rec.lobby].bet]
    /\ heap' = [heap EXCEPT ![rec.lobby] = Seat(@, rec.sock)]
    /\ UNCHANGED <<connected, currentLobby, lobbies, nextId, advances, crashed,
                   joins, tables, debits>>

\* the same callback with err set: it returns at once
DebitFailed(rec) ==
    /\ ~crashed
    /\ BagIn(rec, pendingDb) /\ rec.kind = "debit"
    /\ pendingDb' = pendingDb (-) SetToBag({rec})
    /\ UNCHANGED <<connected, currentLobby, balance, ledger, lobbies, nextId,
                   heap, advances, crashed, joins, tables, debits>>

\* the callback of the UPDATE in determineWinner (lines 316-322)
CreditConfirmed(rec) ==
    /\ ~crashed
    /\ BagIn(rec, pendingDb) /\ rec.kind = "credit"
    /\ pendingDb' = pendingDb (-) SetToBag({rec})
    /\ ledger' = [ledger EXCEPT ![rec.sock] = @ + rec.amt]
    /\ balance' = IF connected[rec.sock]
                  THEN [balance EXCEPT ![rec.sock] = @ + rec.amt] ELSE balance
    /\ UNCHANGED <<connected, currentLobby, lobbies, nextId, heap, advances,
                   crashed, joins, tables, debits>>

\* ----------------------------------------------------------- turn engine
\* processTurn without the clearTimeout of line 250 before the setTimeout
processTurn_no_cancel(L) ==
    LET playerId == CurrentTurn(L) IN
    IF FindPlayer(L.players, playerId) = 0 THEN L
    ELSE [L EXCEPT
             !.timer = [armed |-> TRUE, pid |-> playerId, attached |-> TRUE],
             !.timeouts = @ + 1]

processTurn(L) ==
    LET playerId == CurrentTurn(L) IN
    IF FindPlayer(L.players, playerId) = 0 THEN L
    ELSE [clearTimeout(L) EXCEPT
             !.timer = [armed |-> TRUE, pid |-> playerId, attached |-> TRUE],
             !.timeouts = @ + 1]

\* lobby.players.forEach(p => if turnOrder.includes(p.id) p.lastRoll = null)
ResetRolls(players, order) ==
    [i \in DOMAIN players |->
        IF players[i].id \in Range(order)
        THEN [players[i] EXCEPT !.lastRoll = None] ELSE players[i]]

\* startGame(lobby, participants): one lobby object per outcome of the shuffle
startGame(L, participants) ==
    {processTurn([L EXCEPT !.state = "PLAYING", !.turnOrder = order,
                           !.turnIndex = 0, !.lastWinnerId = None,
                           !.players = ResetRolls(L.players, order)])
        : order \in shuffle(Ids(participants))}

\* start_game: "ignored" for the silent return, else the error_msg it
\* sends, "" when the round starts
start_game_error(s) ==
    LET l == currentLobby[s] IN
    IF l \notin lobbies \/ heap[l].tableHostId # s \/ heap[l].state # "BETTING"
    THEN "ignored"
    ELSE IF Len(heap[l].players) < 2 THEN "Need at least 2 players"
    ELSE ""

start_game(s) ==
    /\ Up(s)
    /\ LET l == currentLobby[s] IN
       IF start_game_error(s) # ""
       THEN UNCHANGED heap
       ELSE \E L1 \in startGame(heap[l], heap[l].players) :
               heap' = [heap EXCEPT ![l] = L1]
    /\ UNCHANGED <<connected, currentLobby, balance, ledger, lobbies, nextId,
                   advances, pendingDb, crashed, joins, tables, debits>>

\* performRoll on the lobby object: idx is the player's place in
\* lobby.players, 0 for a player object that is no longer in the array
performRoll(L, idx, d1, d2) ==
    [clearTimeout(L) EXCEPT
        !.players = IF idx = 0 THEN @ ELSE [@ EXCEPT ![idx].lastRoll = d1 + d2]]

\* roll_dice without the check of lines 261-262 that the sender is the
\* participant at the turn index
roll_dice_any_sender(s) ==
    /\ Up(s)
    /\ LET l == currentLobby[s] IN
       IF l \notin lobbies \/ heap[l].state # "PLAYING"
       THEN UNCHANGED <<heap, advances, crashed>>
       ELSE LET idx == FindPlayer(heap[l].players, s) IN
            IF idx = 0
            THEN /\ heap' = [heap EXCEPT ![l] = clearTimeout(@)]
                 /\ crashed' = TRUE
                 /\ UNCHANGED advances
            ELSE /\ advances[l] < MaxAdvances
                 /\ \E d1, d2 \in getRandomInt(DieMin, DieMax) :
                        heap' = [heap EXCEPT ![l] = performRoll(@, idx, d1, d2)]
                 /\ advances' = [advances EXCEPT ![l] = @ + 1]
                 /\ UNCHANGED crashed
    /\ UNCHANGED <<connected, currentLobby, balance, ledger, lobbies, nextId,
                   pendingDb, joins, tables, debits>>

roll_dice(s) ==
    /\ Up(s)
    /\ LET l == currentLobby[s] IN
       IF l \notin lobbies \/ heap[l].state # "PLAYING" \/ s # CurrentTurn(heap[l])
       THEN UNCHANGED <<heap, advances, crashed>>
       ELSE LET idx == FindPlayer(heap[l].players, s) IN
            IF idx = 0
            THEN \* player is undefined: performRoll throws after clearTimeout
                 /\ heap' = [heap EXCEPT ![l] = clearTimeout(@)]
                 /\ crashed' = TRUE
                 /\ UNCHANGED advances
            ELSE /\ advances[l] < MaxAdvances
                 /\ \E d1, d2 \in getRandomInt(DieMin, DieMax) :
                        heap' = [heap EXCEPT ![l] = performRoll(@, idx, d1, d2)]
                 /\ advances' = [advances EXCEPT ![l] = @ + 1]
                 /\ UNCHANGED crashed
    /\ UNCHANGED <<connected, currentLobby, balance, ledger, lobbies, nextId,
                   pendingDb, joins, tables, debits>>

\* The 10 s timeout armed by processTurn fires.  Every pending advance was
\* scheduled by a roll, which cleared the timeout armed until then, so it is
\* older than the armed timeout and, being shorter, fires before it.
AutoRoll(l) ==
    /\ ~crashed
    /\ heap[l].timer.armed
    /\ AdvanceDelay < AutoRollDelay => advances[l] = 0
    /\ advances[l] < MaxAdvances
    /\ LET T == heap[l].timer
           idx == IF T.attached THEN FindPlayer(heap[l].players, T.pid) ELSE 0
           fired == [heap[l] EXCEPT !.timer = NoTimer, !.timeouts = @ - 1]
       IN \E d1, d2 \in getRandomInt(DieMin, DieMax) :
              heap' = [heap EXCEPT ![l] = performRoll(fired, idx, d1, d2)]
    /\ advances' = [advances EXCEPT ![l] = @ + 1]
    /\ UNCHANGED <<connected, currentLobby, balance, ledger, lobbies, nextId,
                   pendingDb, crashed, joins, tables, debits>>

\* ------------------------------------------------------------ resolution
RECURSIVE Highest(_, _)
\* participants.forEach(p => { if (p.lastRoll > highest) highest = p.lastRoll })
Highest(participants, highest) ==
    IF participants = <<>> THEN highest
    ELSE Highest(Tail(participants),
                 IF Head(participants).lastRoll > highest
                 THEN Head(participants).lastRoll ELSE highest)

RECURSIVE WithRoll(_, _)
\* participants.filter(p => p.lastRoll === highest)
WithRoll(participants, highest) ==
    IF participants = <<>> THEN <<>>
    ELSE IF Head(participants).lastRoll = highest
         THEN <<Head(participants)>> \o WithRoll(Tail(participants), highest)
         ELSE WithRoll(Tail(participants), highest)

Participants(L) == FilterPlayers(L.players, Range(L.turnOrder))
Winners(L) == WithRoll(Participants(L), Highest(Participants(L), -1))

\* the WINNER FOUND branch of determineWinner on the lobby object
Payout(L, winner) ==
    LET kept == {L.tableHostId, winner.id} IN
    [L EXCEPT !.lastWinnerId = winner.id, !.state = "FINISHED",
              !.players = FilterPlayers(L.players, kept), !.pot = 0,
              !.timer = DetachTimer(L.timer, Sockets \ kept)]

\* determineWinner(lobby): the outcomes, each with the credit it requests
determineWinner(L) ==
    LET winners == Winners(L) IN
    IF Len(winners) = 1
    THEN {[L |-> Payout(L, winners[1]),
           issue |-> SetToBag({Credit(winners[1].id, L.pot)})]}
    ELSE {[L |-> L1, issue |-> EmptyBag] : L1 \in startGame(L, winners)}

\* the 3.5 s timeout set by performRoll fires (lines 292-299)
Advance(l) ==
    /\ ~crashed
    /\ advances[l] > 0
    /\ advances' = [advances EXCEPT ![l] = @ - 1]
    /\ LET L1 == [heap[l] EXCEPT !.turnIndex = @ + 1] IN
       IF L1.turnIndex >= Len(L1.turnOrder)
       THEN \E R \in determineWinner(L1) :
               /\ Pending("credit") + BagCardinality(R.issue) <= MaxPendingCredits
               /\ heap' = [heap EXCEPT ![l] = R.L]
               /\ pendingDb' = pendingDb (+) R.issue
       ELSE /\ heap' = [heap EXCEPT ![l] = processTurn(L1)]
            /\ UNCHANGED pendingDb
    /\ UNCHANGED <<connected, currentLobby, balance, ledger, lobbies, nextId,
                   crashed, joins, tables, debits>>

\* ------------------------------------------------------------ the system
Init ==
    /\ connected = [s \in Sockets |-> TRUE]
    /\ currentLobby = [s \in Sockets |-> None]
    /\ balance = [s \in Sockets |-> StartBalance]
    /\ ledger = [s \in Sockets |-> StartBalance]
    /\ lobbies = {}
    /\ nextId = 1
    /\ heap = [l \in LobbyIds |-> NewLobby(None)]
    /\ advances = [l \in LobbyIds |-> 0]
    /\ pendingDb = EmptyBag
    /\ crashed = FALSE
    /\ joins = 0
    /\ tables = 0
    /\ debits = 0

Next ==
    \/ \E s \in Sockets : create_lobby(s)
    \/ \E s \in Sockets, id \in LobbyIds \cup {BogusId} : join_lobby(s, id)
    \/ \E s \in Sockets : leave_lobby(s)
    \/ \E s \in Sockets : disconnect(s)
    \/ \E s \in Sockets, amount \in AmountInputs : host_set_bet(s, amount)
    \/ \E s \in Sockets : join_table(s)
    \/ \E rec \in BagToSet(pendingDb) : DebitConfirmed(rec)
    \/ \E rec \in BagToSet(pendingDb) : DebitFailed(rec)
    \/ \E rec \in BagToSet(pendingDb) : CreditConfirmed(rec)
    \/ \E s \in Sockets : start_game(s)
    \/ \E s \in Sockets : roll_dice(s)
    \/ \E l \in LobbyIds : AutoRoll(l)
    \/ \E l \in LobbyIds : Advance(l)

Spec == Init /\ [][Next]_vars

\* ================================================================ claims
\* the registered lobbies whose round is running
Playing == {l \in lobbies : heap[l].state = "PLAYING"}

\* the turn-order positions (1-based) before the current one
Passed(L) == {i \in DOMAIN L.turnOrder : i <= L.turnIndex}

\* every id is seated at most once and stands in the turn order at most once
Regular(L) ==
    /\ Cardinality(IdSet(L.players)) = Len(L.players)
    /\ Cardinality(Range(L.turnOrder)) = Len(L.turnOrder)

\* C1: during a Playing round every position of the turn order gets exactly
\* one roll: at most one advance is pending at any time (a second roll_dice
\* of the participant who has rolled is ignored), and every seated
\* participant whose position the turn index has passed has rolled.
C1_OneRollPerTurn ==
    \A l \in Playing :
        Regular(heap[l]) =>
        /\ advances[l] <= 1
        /\ \A i \in Passed(heap[l]) :
              \A p \in PlayersWithId(heap[l].players, {heap[l].turnOrder[i]}) :
                  p.lastRoll # None

\* the participants of the turn order that have left the seated roster have
\* all disconnected
OnlyDisconnected(L) ==
    \A s \in Range(L.turnOrder) : s \in IdSet(L.players) \/ ~connected[s]

\* C2: a running lobby in state Playing that still has members never stalls:
\* a turn whose participant has disconnected and so left the seated roster is
\* skipped, so while the round runs either the auto-roll timeout of a turn is
\* armed or the advance of a roll is pending, and the round goes on to
\* resolution.
C2_NeverStalls ==
    \A l \in Playing :
        (~crashed /\ Len(heap[l].users) > 0 /\ OnlyDisconnected(heap[l])) =>
            (heap[l].timer.armed \/ advances[l] > 0)

\* the advance that is pending for l completes the turn order: it hands the
\* round to resolution
Resolving(l) ==
    advances[l] > 0 /\ heap[l].turnIndex + 1 >= Len(heap[l].turnOrder)

\* the seats (places in the roster) of the participants of the turn order,
\* and those of them that hold the maximum last roll
Contenders(L) == {i \in DOMAIN L.players : L.players[i].id \in Range(L.turnOrder)}
TopSeats(L) ==
    {i \in Contenders(L) :
        \A j \in Contenders(L) : L.players[j].lastRoll <= L.players[i].lastRoll}

\* what C3 promises of a resolution of lobby l won by seat i
PaidOut(l, i) ==
    LET L == heap[l]
        w == L.players[i].id
        after == heap'[l]
    IN  /\ after.lastWinnerId = w
        /\ pendingDb' = pendingDb (+) SetToBag({Credit(w, L.pot)})
        /\ after.pot = 0
        /\ after.state = "FINISHED"
        /\ IdSet(after.players) = IdSet(L.players) \cap {L.tableHostId, w}
        /\ Len(after.players) = Cardinality(IdSet(after.players))

\* C3: when resolution finds exactly one seated participant of the completed
\* turn order holding the maximum last roll, that participant becomes
\* last-winner, one credit of exactly the pot is requested for them, the pot
\* becomes 0, the state Finished, and the seated roster is reduced to the
\* table host and the winner, one entry each (one in all when they coincide).
C3_UniqueWinnerPaid ==
    [][\A l \in LobbyIds :
          (Advance(l) /\ Resolving(l) /\ Cardinality(TopSeats(heap[l])) = 1)
              => \A i \in TopSeats(heap[l]) : PaidOut(l, i)]_vars

\* what C4 promises of a resolution of lobby l that ends in a tie
SuddenDeath(l) ==
    LET L == heap[l]
        after == heap'[l]
        tied == TopSeats(L)
        tiedIds == {L.players[i].id : i \in tied}
    IN  /\ after.state = "PLAYING"
        /\ after.turnIndex = 0
        /\ after.pot = L.pot
        /\ Range(after.turnOrder) = tiedIds
        /\ Len(after.turnOrder) = Cardinality(tied)
        /\ Cardinality(tiedIds) = Cardinality(tied)
        /\ Ids(after.players) = Ids(L.players)
        /\ \A i \in tied : after.players[i].lastRoll = None
        /\ \A i \in DOMAIN L.players \ tied :
              /\ after.players[i] = L.players[i]
              /\ L.players[i].id \notin Range(after.turnOrder)

\* C4: when more than one participant of the completed turn order shares the
\* maximum last roll, a new round starts at once: state Playing, turn index
\* 0, the pot unchanged, the turn order holding exactly the tied participants,
\* each once, their last rolls cleared; the seated players who were not tied
\* stay seated with their last roll and are not in the new turn order.
C4_TieStartsSuddenDeath ==
    [][\A l \in LobbyIds :
          (Advance(l) /\ Resolving(l) /\ Cardinality(TopSeats(heap[l])) > 1)
              => SuddenDeath(l)]_vars

\* C5: the pot is the sum of the bets collected from the currently seated
\* players of the live round: in every registered lobby in state Betting or
\* Playing, pot = bet x (number of seated players).
C5_PotIsBetTimesSeated ==
    \A l \in lobbies :
        heap[l].state \in {"BETTING", "PLAYING"}
            => heap[l].pot = heap[l].bet * Len(heap[l].players)

\* what C6 promises of the round that start_game starts in lobby l
FreshRound(l) ==
    LET L == heap[l]
        after == heap'[l]
    IN  /\ after.state = "PLAYING"
        /\ after.turnIndex = 0
        /\ Range(after.turnOrder) = IdSet(L.players)
        /\ Len(after.turnOrder) = Cardinality(IdSet(L.players))
        /\ Cardinality(IdSet(L.players)) >= 2

\* C6: a start_game that starts a round from Betting leaves state Playing,
\* turn index 0 and a turn order that is a permutation of the seated players,
\* of which there are at least two: every seated player's id stands in it
\* exactly once, and no other id.
C6_TurnOrderIsPermutation ==
    [][\A s \in Sockets :
          (start_game(s) /\ start_game_error(s) = "")
              => FreshRound(currentLobby[s])]_vars

\* s is not the participant at the turn index of a running round
OffTurn(s) ==
    LET l == currentLobby[s] IN
    l \notin lobbies \/ heap[l].state # "PLAYING" \/ CurrentTurn(heap[l]) # s

\* C7: a roll_dice of a connection that is not the participant at the current
\* turn index, or sent while the state is not Playing, is a no-op: every
\* lobby field is the same before and after, and no roll and no advance is
\* scheduled.
C7_OffTurnRollIsNoOp ==
    [][\A s \in Sockets : (roll_dice(s) /\ OffTurn(s)) => UNCHANGED vars]_vars

\* a round is running in which a seated, connected player other than the one
\* whose turn it is can send roll_dice, a roll having been made already
C7_Witness ==
    \E l \in Playing, s \in Sockets :
        /\ Up(s) /\ currentLobby[s] = l /\ s \in IdSet(heap[l].players)
        /\ OffTurn(s)
        /\ CurrentTurn(heap[l]) \in IdSet(heap[l].players) \ {s}
        /\ \E p \in Range(heap[l].players) : p.lastRoll # None

\* connection s holds a seat at the table of the registered lobby l
Seated(s, l) ==
    l \in lobbies /\ connected[s] /\ s \in IdSet(heap[l].players)

\* C8: a leave_lobby of a participant who holds a seat is answered with an
\* error and changes nothing (still a member, still seated), whereas a
\* disconnect of that participant removes them from the member roster and
\* from the seated roster of the lobby, whatever its game state.
C8_SeatedLeaveRefusedDisconnectRemoves ==
    /\ [](\A l \in LobbyIds, s \in Sockets :
            Seated(s, l) =>
                leave_lobby_error(s) # "" /\ s \in Range(heap[l].users))
    /\ [][\A l \in LobbyIds, s \in Sockets :
            Seated(s, l) =>
                /\ leave_lobby(s) => UNCHANGED vars
                /\ disconnect(s) =>
                      /\ s \notin Range(heap'[l].users)
                      /\ s \notin IdSet(heap'[l].players)]_vars

\* what C9 promises of a disconnect of s, the table host of lobby l
HandedOver(s, l) ==
    LET L == heap[l]
        after == heap'[l]
        others == {i \in DOMAIN L.players : L.players[i].id # s}
        first == CHOOSE i \in others : \A j \in others : i <= j
    IN  IF others # {}
        THEN /\ after.tableHostId = L.players[first].id
             /\ after.pot = L.pot /\ after.bet = L.bet
             /\ after.state = L.state
             /\ after.turnOrder = L.turnOrder
             /\ after.turnIndex = L.turnIndex
        ELSE Range(L.users) \ {s} # {} =>
                /\ after.tableHostId = None
                /\ after.state = "IDLE"
                /\ after.bet = 0

\* C9: when the table host disconnects while another seated player remains,
\* the first remaining seated player becomes table host and pot, bet, game
\* state, turn order and turn index stay as they are; when no seated player
\* remains but members do, the table is reset: table host none, state Idle,
\* bet 0.
C9_TableHostDisconnect ==
    [][\A l \in lobbies, s \in Sockets :
          (disconnect(s) /\ heap[l].tableHostId = s) => HandedOver(s, l)]_vars

\* the amount a client sends is a positive integer
PositiveInteger(amount) ==
    amount.num /\ amount.halves > 0 /\ amount.halves % 2 = 0

\* the requests of s that C10 lists as rejected, in a state where s is in a
\* registered lobby
BetRejected(s, amount) ==
    LET L == heap[currentLobby[s]] IN
    \/ L.state = "PLAYING"
    \/ L.state = "BETTING" /\ L.tableHostId # s
    \/ ~PositiveInteger(amount)

StartRejected(s) ==
    LET L == heap[currentLobby[s]] IN
    \/ L.tableHostId # s
    \/ L.state # "BETTING"
    \/ Cardinality(IdSet(L.players)) < 2

SeatRejected(s) ==
    LET L == heap[currentLobby[s]] IN
    L.state # "BETTING" \/ balance[s] < L.bet

\* C10: every rejected action leaves the state unchanged: host_set_bet while
\* Playing, by another than the table host while Betting, or with a bet that
\* is not a positive integer; start_game by another than the table host,
\* outside Betting or with fewer than two seated players; join_table outside
\* Betting or with a cached balance below the bet; join_lobby with an unknown
\* id, which also leaves the requester in the lobby it is in.
C10_RejectedActionsChangeNothing ==
    [][\A s \in Sockets :
          /\ currentLobby[s] \in lobbies =>
                /\ \A amount \in AmountInputs :
                      (host_set_bet(s, amount) /\ BetRejected(s, amount))
                          => UNCHANGED vars
                /\ (start_game(s) /\ StartRejected(s)) => UNCHANGED vars
                /\ (join_table(s) /\ SeatRejected(s)) => UNCHANGED vars
          /\ \A id \in (LobbyIds \cup {BogusId}) \ lobbies :
                join_lobby(s, id) => UNCHANGED vars]_vars

\* C11: in every registered lobby whose state is Playing the turn index is a
\* valid index into the turn order: 0 <= turnIndex < length of turnOrder.
C11_TurnIndexInRange ==
    \A l \in Playing :
        0 <= heap[l].turnIndex /\ heap[l].turnIndex < Len(heap[l].turnOrder)

\* what C12 promises of a resolution of lobby l that finds no seated player
\* of the turn order
NoWinner(l) ==
    /\ pendingDb' = pendingDb
    /\ heap'[l].pot = heap[l].pot
    /\ heap'[l].state # "PLAYING"

\* C12: a resolution that finds no seated player of the completed turn order
\* ends the round without a winner: it requests no credit, leaves the pot and
\* starts no new Playing round; and a table that was reset to Idle leaves
\* Idle only when a member opens a table with host_set_bet.
C12_EmptyResolutionIsTerminal ==
    [][\A l \in lobbies :
          /\ (Advance(l) /\ Resolving(l) /\ Contenders(heap[l]) = {})
                => NoWinner(l)
          /\ (heap[l].state = "IDLE" /\ heap'[l].state # "IDLE")
                => \E s \in Sockets, amount \in AmountInputs :
                      host_set_bet(s, amount)]_vars

\* C13: every seated player of a registered lobby is a member of that lobby,
\* also when the confirmation of a debit arrives after the requester has left
\* the lobby or disconnected.
C13_SeatedAreMembers ==
    \A l \in lobbies : IdSet(heap[l].players) \subseteq Range(heap[l].users)

\* the debits in flight that socket s requested for a seat in lobby l
DebitsInFlight(s, l) ==
    BagCardinality([rec \in {r \in BagToSet(pendingDb) :
                                r.kind = "debit" /\ r.sock = s /\ r.lobby = l}
                        |-> pendingDb[rec]])

\* the seats socket s holds in lobby l
Seats(s, l) == Cardinality({i \in DOMAIN heap[l].players : heap[l].players[i].id = s})

\* C14: seating is a no-op for a requester who is seated or whose debit is
\* awaiting confirmation: in every registered lobby a participant holds at
\* most one seat, and the seats they hold and the debits in flight for them
\* are at most one together.
C14_SeatedAndDebitedOnce ==
    \A l \in lobbies, s \in Sockets : Seats(s, l) + DebitsInFlight(s, l) <= 1

RECURSIVE SumOf(_, _)
\* the sum of f[x] over the x of the finite set S
SumOf(f, S) ==
    IF S = {} THEN 0
    ELSE LET x == CHOOSE y \in S : TRUE IN f[x] + SumOf(f, S \ {x})

\* the money of the credits whose UPDATE has been requested and not yet run
CreditsInFlight ==
    LET credits == {r \in BagToSet(pendingDb) : r.kind = "credit"}
    IN  SumOf([r \in credits |-> r.amt * pendingDb[r]], credits)

\* C15: stakes are never lost: the ledger balances of all users, the pots of
\* the registered lobbies and the winnings whose credit is under way add up to
\* the initial total in every reachable state.
C15_MoneyIsConserved ==
    SumOf(ledger, Sockets) + SumOf([l \in lobbies |-> heap[l].pot], lobbies)
        + CreditsInFlight = NumSockets * StartBalance

\* the sums two dice can show
RollValues == {d1 + d2 : d1, d2 \in getRandomInt(DieMin, DieMax)}

\* what C16 promises of the auto-roll timeout of lobby l firing for s, the
\* participant whose turn it is: one seat of s gets a roll, no other seat
\* changes, and the advance of the turn is scheduled
AutoRolledFor(s, l) ==
    LET L == heap[l]
        after == heap'[l]
    IN  /\ advances'[l] = advances[l] + 1
        /\ ~after.timer.armed
        /\ Ids(after.players) = Ids(L.players)
        /\ \E i \in DOMAIN L.players :
              /\ L.players[i].id = s
              /\ after.players[i].lastRoll \in RollValues
              /\ \A j \in DOMAIN L.players \ {i} : after.players[j] = L.players[j]

\* C16 (each turn): when the auto-roll timeout of a running round fires while
\* the participant whose turn it is is still connected, an automatic roll is
\* recorded for exactly that participant and the advance of the turn is
\* scheduled.
C16_AutoRollServesTheTurn ==
    [][\A l \in Playing :
          (AutoRoll(l) /\ CurrentTurn(heap[l]) # None
                       /\ connected[CurrentTurn(heap[l])])
              => AutoRolledFor(CurrentTurn(heap[l]), l)]_vars

\* the timers and the database callbacks are run by the event loop once they
\* are due: an armed auto-roll timeout (line 250) and a scheduled advance
\* (line 292) fire, the callback of the credit UPDATE (line 316) is called
FairSpec ==
    /\ Spec
    /\ \A l \in LobbyIds : WF_vars(AutoRoll(l)) /\ WF_vars(Advance(l))
    /\ WF_vars(\E rec \in BagToSet(pendingDb) : CreditConfirmed(rec))

\* the round of lobby l is at turn k of its turn order, the auto-roll timeout
\* armed
TurnPending(l, k) ==
    /\ heap[l].state = "PLAYING"
    /\ heap[l].turnIndex = k
    /\ CurrentTurn(heap[l]) # None
    /\ heap[l].timer.armed

\* C16 (progress): a turn whose auto-roll timeout is armed ends, whether or
\* not a client acts: the round leaves that turn or leaves state Playing.
C16_ArmedTurnEnds ==
    \A l \in LobbyIds, k \in 0..NumSockets :
        TurnPending(l, k) ~>
            (heap[l].state # "PLAYING" \/ heap[l].turnIndex # k \/ crashed)

\* a roll, manual or automatic, is performed in lobby l: only performRoll
\* schedules an advance
Rolled(l) == advances'[l] = advances[l] + 1

\* an auto-roll timeout is armed in lobby l
Arming(l) == heap'[l].timeouts > heap[l].timeouts

\* C17: at most one auto-roll timeout is pending per lobby; a timeout is
\* armed only when a turn begins, for the participant at the turn index,
\* with the one armed before cancelled; every roll, manual or automatic,
\* leaves no timeout pending, so that a timeout which fires was armed after
\* the last roll.
C17_OneTimeoutPerLobby ==
    /\ [](\A l \in LobbyIds :
            heap[l].timeouts = IF heap[l].timer.armed THEN 1 ELSE 0)
    /\ [][\A l \in LobbyIds :
            /\ Rolled(l) => heap'[l].timeouts = 0
            /\ Arming(l) =>
                  /\ Advance(l) \/ \E s \in Sockets : start_game(s)
                  /\ heap'[l].state = "PLAYING"
                  /\ heap'[l].timer.pid = CurrentTurn(heap'[l])]_vars

\* a timeout is pending for a later turn of a round: the one of the turn
\* before was cancelled by its roll
C17_Witness ==
    \E l \in Playing :
        /\ heap[l].turnIndex >= 1
        /\ heap[l].timeouts = 1
        /\ \E i \in DOMAIN heap[l].players : heap[l].players[i].lastRoll # None

\* the places of socket s in the member roster of lobby object L
MemberPlaces(L, s) == {i \in DOMAIN L.users : L.users[i] = s}

\* C18: every registered lobby has a member, and its room host is exactly
\* one entry of its member roster.
C18_RoomHostIsAMember ==
    \A l \in lobbies :
        /\ heap[l].users # <<>>
        /\ Cardinality(MemberPlaces(heap[l], heap[l].roomHostId)) = 1

\* the room host's role was handed over: a registered lobby whose room host
\* is not connection 1, the first connection to act and so its creator
C18_Witness ==
    \E l \in lobbies : heap[l].roomHostId # 1 /\ 1 \notin Range(heap[l].users)

\* socket s holds a seat in registered lobby l while the bet is binding
BoundSeat(s, l) ==
    /\ l \in lobbies
    /\ heap[l].state \in {"BETTING", "PLAYING"}
    /\ s \in IdSet(heap[l].players)

\* the step is one of the three that may take a seat away: s disconnects,
\* a host_set_bet opens a table, or an advance of lobby l resolves its round
MayUnseat(s, l) ==
    \/ connected[s] /\ ~connected'[s]
    \/ tables' = tables + 1
    \/ Advance(l) /\ Resolving(l)

\* C19: a seat held while the state is Betting or Playing is lost only by a
\* disconnect of its holder, by a table being opened or by the resolution of
\* the round; and a seated member stops being a member only by disconnecting.
C19_BetIsBinding ==
    [][\A l \in LobbyIds, s \in Sockets :
          BoundSeat(s, l) =>
              /\ s \notin IdSet(heap'[l].players) => MayUnseat(s, l)
              /\ (s \in Range(heap[l].users) /\ s \notin Range(heap'[l].users))
                    => ~connected'[s]]_vars

\* C20: the lobby a connection refers to is registered and has the
\* connection exactly once in its member roster, and no other lobby, and no
\* lobby of a connection that refers to none, has it as a member.
C20_MembershipIsConsistent ==
    \A s \in Sockets :
        /\ currentLobby[s] # None =>
              /\ currentLobby[s] \in lobbies
              /\ Cardinality(MemberPlaces(heap[currentLobby[s]], s)) = 1
        /\ \A l \in lobbies \ {currentLobby[s]} : s \notin Range(heap[l].users)
====
